---- MODULE Spec2Model ----
(***************************************************************************)
(* Object Inspector Tools (src/blender/functions.py): the three operators  *)
(* Add Texture, Create Fitting Box and Mould Box acting on a host scene.   *)
(*                                                                         *)
(* Lengths are fixed-point integers, Unit ticks per 1.0, so 0.1 is         *)
(* Unit \div 10.  Every coordinate the model draws is a multiple of 2      *)
(* ticks times a scale that keeps the products whole, so each halving and  *)
(* each fixed-point product below is exact; float rounding is not          *)
(* modelled.  Rotations are quarter turns about Z.                         *)
(* Object names are sequences of tokens: "Cube_FittingBox.001" is          *)
(* <<"Cube", "_FittingBox", ".001">>.                                      *)
(***************************************************************************)
EXTENDS Integers, Sequences, FiniteSets, TLC

VARIABLES objects, active, mode, images, materials, shading, last,
          registered, scene_property, menu_funcs, IS_REGISTERED, calls

\* the scene and the record of the last operator call
scene_vars == <<objects, active, mode, images, materials, shading, last>>

\* what the host has registered of the add-on, the module's flag, and the
\* calls made of register(), unregister() and load_and_register()
addon_vars == <<registered, scene_property, menu_funcs, IS_REGISTERED, calls>>

vars == <<objects, active, mode, images, materials, shading, last,
          registered, scene_property, menu_funcs, IS_REGISTERED, calls>>

(* ------------------------------ bounds -------------------------------- *)

\* No operator is invoked once the scene holds this many objects or more.
MaxObjects == 5

\* The same, where Add Texture is invoked as well.
MaxTexturedObjects == 4

\* register(), unregister() and load_and_register() are called this often
\* at most.
MaxCalls == 4

(* ----------------------------- arithmetic ----------------------------- *)

Unit == 10 * 2

Half(v) == v \div 2

\* scale * length, both fixed-point
Mul(s, v) == (s * v) \div Unit

SetMin(S) == CHOOSE m \in S : \A n \in S : m <= n

SetMax(S) == CHOOSE m \in S : \A n \in S : m >= n

Vec(a, b, c) == [x |-> a, y |-> b, z |-> c]

VAdd(u, v) == Vec(u.x + v.x, u.y + v.y, u.z + v.z)

VSub(u, v) == Vec(u.x - v.x, u.y - v.y, u.z - v.z)

VHalf(u) == Vec(Half(u.x), Half(u.y), Half(u.z))

(* ------------------------------- names -------------------------------- *)

None == <<>>

NumSuffix(k) == IF k < 10 THEN ".00" \o ToString(k) ELSE ".0" \o ToString(k)

IsNumSuffix(t) == \E k \in 1..99 : t = NumSuffix(k)

NameStem(n) == IF IsNumSuffix(n[Len(n)]) THEN SubSeq(n, 1, Len(n) - 1) ELSE n

\* The host's name-keyed registry keeps names unique: a taken name gets the
\* first free numeric suffix.
FirstFree(used, stem) ==
    Append(stem, NumSuffix(SetMin({j \in 1..(Cardinality(used) + 1) :
                                     Append(stem, NumSuffix(j)) \notin used})))

UniqueName(used, n) == IF n \notin used THEN n ELSE FirstFree(used, NameStem(n))

Names(objs) == {objs[i].name : i \in 1..Len(objs)}

Exists(objs, n) == n \in Names(objs)

Obj(objs, n) == objs[CHOOSE i \in 1..Len(objs) : objs[i].name = n]

\* objs with the object named n replaced by f
Put(objs, n, f) == [i \in 1..Len(objs) |-> IF objs[i].name = n THEN f ELSE objs[i]]

(* ------------------------------ geometry ------------------------------ *)

\* the eight corners of a local bounding box (obj.bound_box)
Corners(o) == {Vec(cx, cy, cz) : cx \in {o.bmin.x, o.bmax.x},
                                 cy \in {o.bmin.y, o.bmax.y},
                                 cz \in {o.bmin.z, o.bmax.z}}

RotZ(q, v) ==
    CASE q = 0 -> v
      [] q = 1 -> Vec(-v.y, v.x, v.z)
      [] q = 2 -> Vec(-v.x, -v.y, v.z)
      [] q = 3 -> Vec(v.y, -v.x, v.z)

Scaled(s, c) == Vec(Mul(s.x, c.x), Mul(s.y, c.y), Mul(s.z, c.z))

\* obj.matrix_world @ Vector(corner): scale, then rotate, then translate
ToWorld(o, c) ==
    VAdd(o.location, RotZ(o.rot, Scaled(o.scale, c)))

\* per-axis min and max over the eight transformed corners
BBoxOf(pts) ==
    [min |-> Vec(SetMin({p.x : p \in pts}), SetMin({p.y : p \in pts}), SetMin({p.z : p \in pts})),
     max |-> Vec(SetMax({p.x : p \in pts}), SetMax({p.y : p \in pts}), SetMax({p.z : p \in pts}))]

\* mutant: only the two corners bound_box lists as lowest and highest
WorldBBoxTwoCorners(o) == [min |-> ToWorld(o, o.bmin), max |-> ToWorld(o, o.bmax)]

WorldBBox(o) == BBoxOf({ToWorld(o, c) : c \in Corners(o)})

BSize(b) == VSub(b.max, b.min)

BCenter(b) == VHalf(VAdd(b.min, b.max))

(* --------------------------- host scene graph ------------------------- *)

\* A scene is [objects, active, mode]; the operators thread it through the
\* host calls in the order the code makes them.

Ones == Vec(Unit, Unit, Unit)

Zero == Vec(0, 0, 0)

\* bpy.ops.mesh.primitive_cube_add(size=1): a cube of side 1.0 about its origin
NewCube(n, loc) ==
    [name |-> n, type |-> "MESH", location |-> loc, rot |-> 0, scale |-> Ones,
     bmin |-> Vec(-Half(Unit), -Half(Unit), -Half(Unit)),
     bmax |-> Vec(Half(Unit), Half(Unit), Half(Unit)),
     select |-> TRUE, modifiers |-> <<>>, cut |-> <<>>, material |-> None, uv |-> TRUE]

ModeSet(sc, m) == [sc EXCEPT !.mode = m]

\* bpy.ops.object.select_all(action='DESELECT')
DeselectAll(sc) ==
    [sc EXCEPT !.objects = [i \in 1..Len(sc.objects) |->
                               [sc.objects[i] EXCEPT !.select = FALSE]]]

SelectSet(sc, n, b) ==
    [sc EXCEPT !.objects = Put(sc.objects, n, [Obj(sc.objects, n) EXCEPT !.select = b])]

SetActiveObject(sc, n) == [sc EXCEPT !.active = n]

\* The new cube is the only selected object and the active one.
PrimitiveCubeAdd(sc, loc) ==
    [sc EXCEPT !.objects = Append(DeselectAll(sc).objects,
                                  NewCube(UniqueName(Names(sc.objects), <<"Cube">>), loc)),
               !.active = UniqueName(Names(sc.objects), <<"Cube">>)]

\* obj.name = want: unique among the other objects
Renamed(sc, n, new) ==
    [sc EXCEPT !.objects = Put(sc.objects, n, [Obj(sc.objects, n) EXCEPT !.name = new]),
               !.active = IF sc.active = n THEN new ELSE sc.active]

Rename(sc, n, want) == Renamed(sc, n, UniqueName(Names(sc.objects) \ {n}, want))

\* mutant: the original stays selected beside its copy
CopiedKeepsSelection(sc, o, n) ==
    [sc EXCEPT !.objects = Append(sc.objects, [o EXCEPT !.name = n, !.select = TRUE]),
               !.active = IF sc.active = o.name THEN n ELSE sc.active]

\* bpy.ops.object.duplicate(): every selected object is copied with its own
\* mesh data; the copies become the selection, the active object's copy the
\* active object.
Copied(sc, o, n) ==
    [sc EXCEPT !.objects = Append(Put(sc.objects, o.name,
                                      [Obj(sc.objects, o.name) EXCEPT !.select = FALSE]),
                                  [o EXCEPT !.name = n, !.select = TRUE]),
               !.active = IF sc.active = o.name THEN n ELSE sc.active]

RECURSIVE DuplicateFrom(_, _, _)
DuplicateFrom(sc, orig, i) ==
    IF i > Len(orig) THEN sc
    ELSE IF ~orig[i].select THEN DuplicateFrom(sc, orig, i + 1)
    ELSE DuplicateFrom(Copied(sc, orig[i], UniqueName(Names(sc.objects), orig[i].name)),
                       orig, i + 1)

Duplicate(sc) == DuplicateFrom(sc, sc.objects, 1)

\* bake the scale into the geometry: v' = S v
Baked(o, b) ==
    [o EXCEPT !.bmin = b.min, !.bmax = b.max, !.scale = Ones]

ApplyScaleTo(o) == Baked(o, BBoxOf({Scaled(o.scale, c) : c \in Corners(o)}))

\* bake the whole transform: v' = T R S v
ApplyAllTo(o) == [Baked(o, WorldBBox(o)) EXCEPT !.rot = 0, !.location = Zero]

\* bpy.ops.object.transform_apply(...) acts on every selected object; the
\* code uses it with scale alone and with location, rotation and scale.
Applied(o, location, rotation, scale) ==
    IF ~o.select \/ o.type # "MESH" THEN o
    ELSE IF location /\ rotation /\ scale THEN ApplyAllTo(o)
    ELSE IF scale /\ ~location /\ ~rotation THEN ApplyScaleTo(o)
    ELSE o

TransformApply(sc, location, rotation, scale) ==
    [sc EXCEPT !.objects = [i \in 1..Len(sc.objects) |->
                               Applied(sc.objects[i], location, rotation, scale)]]

IsMesh(objs, n) == n # None /\ Exists(objs, n) /\ Obj(objs, n).type = "MESH"

\* mutant: the type of the active object is not tested
ValidTargetAnyType(sc) == sc.active # None /\ Exists(sc.objects, sc.active)

\* not (obj is None or obj.type != 'MESH'): the first test of every execute
ValidTarget(sc) == IsMesh(sc.objects, sc.active)

(* ------------------------- Create Fitting Box ------------------------- *)

\* what an operator hands back: the scene it leaves, its return value, the
\* levels it reported, the objects it created, the boolean it requested
Outcome(sc, result, reports, created, boolean) ==
    [scene |-> sc, result |-> result, reports |-> reports,
     created |-> created, boolean |-> boolean]

NoBoolean == [target |-> None, cutter |-> None, operation |-> "", solver |-> ""]

\* self.report({'ERROR'}, ...); return {'CANCELLED'}
Cancelled(sc) == Outcome(sc, "CANCELLED", <<"ERROR">>, <<>>, NoBoolean)

EnsureObjectMode(sc) == IF sc.mode # "OBJECT" THEN ModeSet(sc, "OBJECT") ELSE sc

RenameActive(sc, want) == Rename(sc, sc.active, want)

\* mutant: the padding added on one side only
FittingBoxSizeOnePad(bbox, padding) ==
    Vec(BSize(bbox).x + padding, BSize(bbox).y + padding, BSize(bbox).z + padding)

\* box_width, box_length, box_height
FittingBoxSize(bbox, padding) ==
    Vec(BSize(bbox).x + padding * 2,
        BSize(bbox).y + padding * 2,
        BSize(bbox).z + padding * 2)

\* mutant: the mesh's own half extent left out of the X offset
FittingBoxCenterNoHalf(bbox, box_width, side_spacing) ==
    Vec(Half(bbox.min.x + bbox.max.x) + Half(box_width) + side_spacing,
        Half(bbox.min.y + bbox.max.y),
        Half(bbox.min.z + bbox.max.z))

\* box_center_x and the Y, Z centre
FittingBoxCenter(bbox, box_width, side_spacing) ==
    Vec(Half(bbox.min.x + bbox.max.x) + Half(bbox.max.x - bbox.min.x)
            + Half(box_width) + side_spacing,
        Half(bbox.min.y + bbox.max.y),
        Half(bbox.min.z + bbox.max.z))

FittingBoxName(n) == Append(n, "_FittingBox")

\* mutant: a box that already carries the name is taken over
FittingBoxReused(sc, obj) ==
    IF Exists(sc.objects, FittingBoxName(obj))
    THEN SetActiveObject(SelectSet(DeselectAll(sc), FittingBoxName(obj), TRUE),
                         FittingBoxName(obj))
    ELSE RenameActive(PrimitiveCubeAdd(sc, Zero), FittingBoxName(obj))

\* lines 268-271: a new unit cube at the origin, named after the mesh
FittingBoxObject(sc, obj) == RenameActive(PrimitiveCubeAdd(sc, Zero), FittingBoxName(obj))

\* lines 273-287: the active box scaled to size and moved to center
FittingBoxPlaced(sc, size, center) ==
    [sc EXCEPT !.objects = Put(sc.objects, sc.active,
        [Obj(sc.objects, sc.active) EXCEPT !.scale = size, !.location = center])]

\* mutant: the mesh made the active object again
FittingBoxFinishedSourceActive(sc, obj) ==
    Outcome(SetActiveObject(SelectSet(SelectSet(sc, obj, TRUE), sc.active, TRUE), obj),
            "FINISHED", <<"INFO">>, <<sc.active>>, NoBoolean)

\* lines 289-295: mesh and box selected, the box active
FittingBoxFinished(sc, obj) ==
    Outcome(SelectSet(SelectSet(sc, obj, TRUE), sc.active, TRUE),
            "FINISHED", <<"INFO">>, <<sc.active>>, NoBoolean)

FittingBoxFor(sc, obj, bbox, padding, side_spacing) ==
    FittingBoxFinished(
        FittingBoxPlaced(FittingBoxObject(sc, obj),
                         FittingBoxSize(bbox, padding),
                         FittingBoxCenter(bbox, FittingBoxSize(bbox, padding).x, side_spacing)),
        obj)

\* mutant: a mesh whose bounding box has no extent is turned away
CreateFittingRectangle_executeRejectsFlat(sc, padding, side_spacing) ==
    IF ~ValidTarget(sc) THEN Cancelled(sc)
    ELSE IF BSize(WorldBBox(Obj(sc.objects, sc.active))) = Zero THEN Cancelled(sc)
    ELSE FittingBoxFor(EnsureObjectMode(sc), sc.active,
                       WorldBBox(Obj(sc.objects, sc.active)), padding, side_spacing)

CreateFittingRectangle_execute(sc, padding, side_spacing) ==
    IF ~ValidTarget(sc) THEN Cancelled(sc)
    ELSE FittingBoxFor(EnsureObjectMode(sc), sc.active,
                       WorldBBox(Obj(sc.objects, sc.active)), padding, side_spacing)

(* ------------------------------ Mould Box ----------------------------- *)

MouldBox_poll(sc) ==
    IF ~ValidTarget(sc) THEN FALSE
    ELSE Exists(sc.objects, FittingBoxName(sc.active))

\* one axis of box minus cutter, the cutter taken as its bounding box: an
\* end of the box is cut away only where the cutter spans the whole cross
\* section (cover) and reaches past that end
TrimAxis(lo, hi, clo, chi, cover) ==
    IF ~cover \/ chi <= lo \/ clo >= hi \/ (clo <= lo /\ chi >= hi) THEN <<lo, hi>>
    ELSE IF clo <= lo THEN <<chi, hi>>
    ELSE IF chi >= hi THEN <<lo, clo>>
    ELSE <<lo, hi>>

Covers(c, t, a) == c.min[a] <= t.min[a] /\ c.max[a] >= t.max[a]

\* the boolean solver's DIFFERENCE, on world-space bounding boxes
DifferenceBBox(t, c) ==
    LET ax == TrimAxis(t.min.x, t.max.x, c.min.x, c.max.x, Covers(c, t, "y") /\ Covers(c, t, "z"))
        ay == TrimAxis(t.min.y, t.max.y, c.min.y, c.max.y, Covers(c, t, "x") /\ Covers(c, t, "z"))
        az == TrimAxis(t.min.z, t.max.z, c.min.z, c.max.z, Covers(c, t, "x") /\ Covers(c, t, "y"))
    IN [min |-> Vec(ax[1], ay[1], az[1]), max |-> Vec(ax[2], ay[2], az[2])]

\* the target t with its last modifier applied: geometry b, modifier gone
Carved(t, b) ==
    [t EXCEPT !.bmin = VSub(b.min, t.location),
              !.bmax = VSub(b.max, t.location),
              !.cut = Append(t.cut, t.modifiers[Len(t.modifiers)].object),
              !.modifiers = SubSeq(t.modifiers, 1, Len(t.modifiers) - 1)]

\* bpy.ops.object.modifier_apply on the active object's last modifier
ModifierApplyTo(sc, t) ==
    [sc EXCEPT !.objects = Put(sc.objects, t.name,
        Carved(t, DifferenceBBox(WorldBBox(t),
                   WorldBBox(Obj(sc.objects, t.modifiers[Len(t.modifiers)].object)))))]

ModifierApply(sc) == ModifierApplyTo(sc, Obj(sc.objects, sc.active))

MouldBoxName(n) == Append(n, "_MouldBox")

MouldMeshName(n) == Append(n, "_MouldMesh")

\* mould_box.scale = fitting_box_scale, then the scale baked in
MouldBoxScaled(sc, fitting_box_scale) ==
    TransformApply(
        [sc EXCEPT !.objects = Put(sc.objects, sc.active,
            [Obj(sc.objects, sc.active) EXCEPT !.scale = fitting_box_scale])],
        FALSE, FALSE, TRUE)

\* mutant: the box scaled by fitting_box_width, _length, _height (scale * 2)
MouldBoxCreatedDoubled(sc) ==
    MouldBoxScaled(
        RenameActive(PrimitiveCubeAdd(DeselectAll(EnsureObjectMode(sc)),
                                      BCenter(WorldBBox(Obj(sc.objects, sc.active)))),
                     MouldBoxName(sc.active)),
        Vec(Obj(sc.objects, FittingBoxName(sc.active)).scale.x * 2,
            Obj(sc.objects, FittingBoxName(sc.active)).scale.y * 2,
            Obj(sc.objects, FittingBoxName(sc.active)).scale.z * 2))

\* lines 340-381: the solid box, sized like the fitting box, about the mesh
MouldBoxCreated(sc) ==
    MouldBoxScaled(
        RenameActive(PrimitiveCubeAdd(DeselectAll(EnsureObjectMode(sc)),
                                      BCenter(WorldBBox(Obj(sc.objects, sc.active)))),
                     MouldBoxName(sc.active)),
        Obj(sc.objects, FittingBoxName(sc.active)).scale)

\* mesh_top_position_z
DuplicateCenterZ(mould_box_top_z, obj) ==
    mould_box_top_z + Half(obj.bmax.z - obj.bmin.z) - Half(obj.bmin.z + obj.bmax.z)

\* lines 414-425: the active copy posed from the mould box mb, then baked
MeshCopyPlaced(sc, obj, mb, mould_box_top_z) ==
    TransformApply(
        [sc EXCEPT !.objects = Put(sc.objects, sc.active,
            [Obj(sc.objects, sc.active) EXCEPT
                !.location = Vec(mb.location.x, mb.location.y,
                                 DuplicateCenterZ(mould_box_top_z, obj)),
                !.rot = mb.rot,
                !.scale = mb.scale])],
        TRUE, TRUE, TRUE)

\* lines 395-402: the mesh alone selected and active, then duplicated
MeshDuplicated(sc, obj, mould_box) ==
    RenameActive(
        Duplicate(SetActiveObject(SelectSet(SelectSet(sc, obj, TRUE), mould_box, FALSE), obj)),
        MouldMeshName(obj))

\* lines 383-425: the duplicate set against the top of the mould box
MouldMeshPlaced(sc, obj, mould_box) ==
    MeshCopyPlaced(MeshDuplicated(sc, obj, mould_box), Obj(sc.objects, obj),
                   Obj(sc.objects, mould_box),
                   WorldBBox(Obj(sc.objects, mould_box)).max.z)

\* mutant: another boolean operation
BooleanCavityIntersect(mesh_copy) ==
    [name |-> "BooleanCavity", operation |-> "INTERSECT", object |-> mesh_copy,
     solver |-> "FAST"]

BooleanCavity(mesh_copy) ==
    [name |-> "BooleanCavity", operation |-> "DIFFERENCE", object |-> mesh_copy,
     solver |-> "FAST"]

WithModifier(o, m) == [o EXCEPT !.modifiers = Append(o.modifiers, m)]

\* lines 439-456: both selected, the box active and carrying the modifier
BooleanRequested(sc, mould_box, mesh_copy) ==
    [sc EXCEPT !.objects = Put(SelectSet(SelectSet(DeselectAll(sc), mould_box, TRUE),
                                         mesh_copy, TRUE).objects,
                               mould_box,
                               WithModifier([Obj(sc.objects, mould_box) EXCEPT !.select = TRUE],
                                            BooleanCavity(mesh_copy))),
                  !.active = mould_box]

\* what the solver is asked: read back from the modifier m on the target
Request(target, m) ==
    [target |-> target, cutter |-> m.object, operation |-> m.operation, solver |-> m.solver]

\* offset_x
MouldOffsetX(fitting_box, mould_box) ==
    (fitting_box.location.x + BSize(WorldBBox(mould_box)).x + Unit) - mould_box.location.x

MoveX(o, dx) == [o EXCEPT !.location = Vec(o.location.x + dx, o.location.y, o.location.z)]

\* mutant: the cutter left behind
MovedBoxOnly(sc, mould_box, mesh_copy, offset_x) ==
    [sc EXCEPT !.objects =
        Put(sc.objects, mould_box,
            [MoveX(Obj(sc.objects, mould_box), offset_x) EXCEPT !.select = TRUE]),
               !.active = mould_box]

MovedBoth(sc, mould_box, mesh_copy, offset_x) ==
    [sc EXCEPT !.objects =
        Put(Put(sc.objects, mould_box,
                [MoveX(Obj(sc.objects, mould_box), offset_x) EXCEPT !.select = TRUE]),
            mesh_copy, MoveX(Obj(sc.objects, mesh_copy), offset_x)),
               !.active = mould_box]

\* lines 470-488: box and cutter moved beside the fitting box, the box selected
Repositioned(sc, fitting_box_name, mould_box, mesh_copy) ==
    MovedBoth(sc, mould_box, mesh_copy,
              MouldOffsetX(Obj(sc.objects, fitting_box_name), Obj(sc.objects, mould_box)))

\* lines 459-497.  solved is what modifier_apply does: "FINISHED",
\* "CANCELLED" (a result without FINISHED) or "RAISE" (an exception, which
\* the handler turns into an error report and CANCELLED)
MouldSolved(sc, obj, mould_box, mesh_copy, request, solved) ==
    IF solved = "RAISE"
    THEN Outcome(sc, "CANCELLED", <<"ERROR">>, <<mould_box, mesh_copy>>, request)
    ELSE Outcome(Repositioned(IF solved = "FINISHED" THEN ModifierApply(sc) ELSE sc,
                              FittingBoxName(obj), mould_box, mesh_copy),
                 "FINISHED",
                 <<IF solved = "FINISHED" THEN "INFO" ELSE "WARNING", "INFO">>,
                 <<mould_box, mesh_copy>>, request)

MouldRequested(sc, obj, mould_box, mesh_copy, solved) ==
    MouldSolved(sc, obj, mould_box, mesh_copy,
                Request(sc.active, Obj(sc.objects, sc.active).modifiers[
                                       Len(Obj(sc.objects, sc.active).modifiers)]),
                solved)

\* sc has the placed copy active
MouldCut(sc, obj, mould_box, solved) ==
    MouldRequested(BooleanRequested(sc, mould_box, sc.active), obj, mould_box, sc.active, solved)

\* sc has the new mould box active
MouldFrom(sc, obj, solved) ==
    MouldCut(MouldMeshPlaced(sc, obj, sc.active), obj, sc.active, solved)

\* mutant: the fitting box looked up after the mode switch and the deselect
FittingBoxMissingLate(sc) == Cancelled(DeselectAll(EnsureObjectMode(sc)))

\* lines 333-336: no fitting box of that name
FittingBoxMissing(sc) == Cancelled(sc)

CreateMouldBox_execute(sc, solved) ==
    IF ~ValidTarget(sc) THEN Cancelled(sc)
    ELSE IF ~Exists(sc.objects, FittingBoxName(sc.active)) THEN FittingBoxMissing(sc)
    ELSE MouldFrom(MouldBoxCreated(sc), sc.active, solved)

(* ----------------------------- Add Texture ---------------------------- *)

\* the files on disk, and those among them the image loader can read
Files == {"/home/u/tex.png", "/home/u/broken.png"}

Readable == {"/home/u/tex.png"}

\* str.strip() of the paths the model draws
Strip(p) == IF p = " " THEN "" ELSE p

\* os.path.abspath(os.path.expanduser(os.path.expandvars(p)))
AbsPath(p) == IF p = "~/tex.png" THEN "/home/u/tex.png" ELSE p

MaterialName(n) == Append(n, "_Material")

\* lines 71-115: the image loaded (or reloaded), the material made or
\* fetched by name and its node tree rebuilt around the image
MaterialBuilt(sc, material_name, image_path) ==
    [sc EXCEPT !.images = sc.images \cup {image_path},
               !.materials = {m \in sc.materials : m.name # material_name}
                             \cup {[name |-> material_name, image |-> image_path]}]

\* lines 117-148: a mesh without a UV layer is unwrapped in Edit mode
UVEnsured(sc, obj) ==
    IF Obj(sc.objects, obj).uv THEN sc
    ELSE [sc EXCEPT !.objects = Put(DeselectAll(sc).objects, obj,
                                    [Obj(sc.objects, obj) EXCEPT !.uv = TRUE,
                                                                 !.select = TRUE]),
                    !.active = obj,
                    !.mode = "OBJECT"]

\* lines 174-191: the material in the mesh's first slot, the viewport shaded
TextureFinished(sc, obj, material_name, reports) ==
    Outcome([sc EXCEPT !.objects = Put(sc.objects, obj,
                           [Obj(sc.objects, obj) EXCEPT !.material = material_name]),
                       !.shading = "MATERIAL"],
            "FINISHED", reports, <<>>, NoBoolean)

\* sc is in Object mode
TextureLoaded(sc, obj, image_path) ==
    IF image_path \notin sc.images /\ image_path \notin Readable THEN Cancelled(sc)
    ELSE TextureFinished(UVEnsured(MaterialBuilt(sc, MaterialName(obj), image_path), obj),
                         obj, MaterialName(obj),
                         IF Obj(sc.objects, obj).uv THEN <<"INFO">> ELSE <<"INFO", "INFO">>)

\* mutant: Object mode entered before the path is looked at
AddTexture_executeModeFirst(sc, self_image_path) ==
    IF ~ValidTarget(sc) THEN Cancelled(sc)
    ELSE IF self_image_path = "" \/ Strip(self_image_path) = ""
         THEN Cancelled(EnsureObjectMode(sc))
    ELSE IF AbsPath(self_image_path) \notin Files THEN Cancelled(EnsureObjectMode(sc))
    ELSE TextureLoaded(EnsureObjectMode(sc), sc.active, AbsPath(self_image_path))

AddTexture_execute(sc, self_image_path) ==
    IF ~ValidTarget(sc) THEN Cancelled(sc)
    ELSE IF self_image_path = "" \/ Strip(self_image_path) = "" THEN Cancelled(sc)
    ELSE IF AbsPath(self_image_path) \notin Files THEN Cancelled(sc)
    ELSE TextureLoaded(EnsureObjectMode(sc), sc.active, AbsPath(self_image_path))

(* ----------------------------- registration --------------------------- *)

Classes == {"OBJECT_INSPECTOR_TexturePath", "OBJECT_OT_AddTexture",
            "OBJECT_OT_CreateFittingRectangle", "OBJECT_OT_CreateMouldBox",
            "VIEW3D_PT_ObjectInspector"}

\* the operators and the panel
ToolClasses == Classes \ {"OBJECT_INSPECTOR_TexturePath"}

\* register(), in the order of its statements
RegisterSteps ==
    <<"OBJECT_INSPECTOR_TexturePath", "object_inspector_texture_path",
      "OBJECT_OT_AddTexture", "OBJECT_OT_CreateFittingRectangle",
      "OBJECT_OT_CreateMouldBox", "VIEW3D_PT_ObjectInspector", "menu_func", "tag_redraw">>

\* unregister(), in the order of its statements
UnregisterSteps ==
    <<"VIEW3D_PT_ObjectInspector", "OBJECT_OT_CreateMouldBox",
      "OBJECT_OT_CreateFittingRectangle", "OBJECT_OT_AddTexture",
      "OBJECT_INSPECTOR_TexturePath", "menu_func", "object_inspector_texture_path">>

\* the statement of register() at which the host raises of its own, if any
\* (a class it rejects, no screen to redraw)
HostFailures == {"none", "OBJECT_OT_CreateMouldBox", "tag_redraw"}

\* bpy.utils.register_class, the Scene property, VIEW3D_MT_object.append
StepRegistered(ad, st) ==
    IF st \in Classes THEN [ad EXCEPT !.registered = @ \cup {st}]
    ELSE IF st = "object_inspector_texture_path" THEN [ad EXCEPT !.scene_property = TRUE]
    ELSE IF st = "menu_func" THEN [ad EXCEPT !.menu_funcs = @ + 1]
    ELSE ad

\* bpy.utils.unregister_class, VIEW3D_MT_object.remove (nothing to remove is
\* no error), del of the Scene property under hasattr
StepUnregistered(ad, st) ==
    IF st \in Classes THEN [ad EXCEPT !.registered = @ \ {st}]
    ELSE IF st = "menu_func"
         THEN [ad EXCEPT !.menu_funcs = IF @ > 0 THEN @ - 1 ELSE @]
    ELSE [ad EXCEPT !.scene_property = FALSE]

\* what a call leaves: the host's registrations, the flag, how it ended
Ended(ad, flag, how) == [addon |-> ad, flag |-> flag, how |-> how]

\* the try block from statement i on: register_class raises on a class that
\* is registered already; whatever is raised is printed and swallowed
RECURSIVE RegisterFrom(_, _, _, _)
RegisterFrom(ad, flag, i, host_fails) ==
    IF i > Len(RegisterSteps) THEN Ended(ad, flag, "done")
    ELSE IF RegisterSteps[i] = host_fails \/ RegisterSteps[i] \in ad.registered
         THEN Ended(ad, flag, "swallowed")
    ELSE RegisterFrom(StepRegistered(ad, RegisterSteps[i]), flag, i + 1, host_fails)

register(ad, flag, host_fails) == RegisterFrom(ad, flag, 1, host_fails)

\* unregister_class raises on a class that is not registered, and
\* unregister() lets that out
RECURSIVE UnregisterFrom(_, _, _)
UnregisterFrom(ad, flag, i) ==
    IF i > Len(UnregisterSteps) THEN Ended(ad, flag, "done")
    ELSE IF UnregisterSteps[i] \in Classes /\ UnregisterSteps[i] \notin ad.registered
         THEN Ended(ad, flag, "raised")
    ELSE UnregisterFrom(StepUnregistered(ad, UnregisterSteps[i]), flag, i + 1)

unregister(ad, flag) == UnregisterFrom(ad, flag, 1)

\* register() has returned: _IS_REGISTERED = True
Flagged(out) == [out EXCEPT !.flag = TRUE]

load_and_register(ad, flag, host_fails) ==
    IF ~flag THEN Flagged(register(ad, flag, host_fails))
    ELSE Ended(ad, flag, "skipped")

(* ------------------------------ the system ---------------------------- *)

Scene == [objects |-> objects, active |-> active, mode |-> mode,
          images |-> images, materials |-> materials, shading |-> shading]

\* padding and side spacing: what the panel passes (lines 559-560) and the
\* properties' minimum (lines 210, 218), which the redo panel can set
FitInputs == {[padding |-> Unit \div 10, side_spacing |-> Unit],
              [padding |-> 0, side_spacing |-> 0]}

ImagePaths == {"", " ", "~/tex.png", "/home/u/none.png", "/home/u/broken.png"}

SolverResults == {"FINISHED", "CANCELLED", "RAISE"}

\* local bounding boxes of the imported mesh: the cube of the spec's
\* scenario (Z centred on the origin), a mesh above its origin by more than
\* its height, and a single point
SourceBoxes ==
    {[bmin |-> Vec(-Unit, -Unit, -Unit), bmax |-> Vec(Unit, Unit, Unit)],
     [bmin |-> Vec(-Unit, -2 * Unit, 2 * Unit), bmax |-> Vec(Unit, 2 * Unit, 3 * Unit)],
     [bmin |-> Zero, bmax |-> Zero]}

\* untransformed, and moved, turned a quarter about Z, stretched and mirrored
SourcePoses ==
    {[location |-> Zero, rot |-> 0, scale |-> Ones],
     [location |-> Vec(2 * Unit, -Unit, 3 * Unit), rot |-> 1,
      scale |-> Vec(2 * Unit, Unit, -Unit)]}

SourceMesh(b, p) ==
    [name |-> <<"object1">>, type |-> "MESH", location |-> p.location, rot |-> p.rot,
     scale |-> p.scale, bmin |-> b.bmin, bmax |-> b.bmax, select |-> FALSE,
     modifiers |-> <<>>, cut |-> <<>>, material |-> None, uv |-> FALSE]

Camera ==
    [name |-> <<"Camera">>, type |-> "CAMERA", location |-> Vec(0, -4 * Unit, Unit),
     rot |-> 0, scale |-> Ones, bmin |-> Zero, bmax |-> Zero, select |-> FALSE,
     modifiers |-> <<>>, cut |-> <<>>, material |-> None, uv |-> FALSE]

NoCall == [tick |-> 0, op |-> "", result |-> "", reports |-> <<>>, source |-> None,
           padding |-> 0, side_spacing |-> 0, solved |-> "", image_path |-> "",
           created |-> <<>>, boolean |-> NoBoolean]

Addon == [registered |-> registered, scene_property |-> scene_property,
          menu_funcs |-> menu_funcs]

\* functions.py run as a script on a fresh host: load_and_register() has
\* registered everything and the panel is there to press
AddonLoaded ==
    /\ registered = Classes
    /\ scene_property = TRUE
    /\ menu_funcs = 1
    /\ IS_REGISTERED = TRUE
    /\ calls = <<>>

\* the scene load_object1.py leaves: the imported mesh and a camera, nothing
\* active, no add-on call made yet
InitWith(boxes, poses) ==
    /\ \E b \in boxes, p \in poses : objects = <<SourceMesh(b, p), Camera>>
    /\ active = None
    /\ mode = "OBJECT"
    /\ images = {}
    /\ materials = {}
    /\ shading = "SOLID"
    /\ last = NoCall
    /\ AddonLoaded

Init == InitWith(SourceBoxes, SourcePoses)

\* the operator leaves scene out.scene; last keeps what the call was and what
\* it answered, its tick telling one call from the next
Returns(out, op, padding, side_spacing, solved, image_path) ==
    /\ objects' = out.scene.objects
    /\ active' = out.scene.active
    /\ mode' = out.scene.mode
    /\ images' = out.scene.images
    /\ materials' = out.scene.materials
    /\ shading' = out.scene.shading
    /\ last' = [tick |-> 1 - last.tick, op |-> op, result |-> out.result,
                reports |-> out.reports, source |-> active,
                padding |-> padding, side_spacing |-> side_spacing, solved |-> solved,
                image_path |-> image_path,
                created |-> out.created, boolean |-> out.boolean]
    /\ UNCHANGED addon_vars

\* the user clicks an object in the viewport
Select(n) ==
    /\ mode = "OBJECT"
    /\ Exists(objects, n)
    /\ objects' = SelectSet(DeselectAll(Scene), n, TRUE).objects
    /\ active' = n
    /\ UNCHANGED <<mode, images, materials, shading, last>>
    /\ UNCHANGED addon_vars

\* the view layer is left with no active object
ClearActive ==
    /\ mode = "OBJECT"
    /\ active # None
    /\ active' = None
    /\ UNCHANGED <<objects, mode, images, materials, shading, last>>
    /\ UNCHANGED addon_vars

\* Tab on a mesh
ToggleEditMode ==
    /\ IsMesh(objects, active)
    /\ mode' = IF mode = "OBJECT" THEN "EDIT" ELSE "OBJECT"
    /\ UNCHANGED <<objects, active, images, materials, shading, last>>
    /\ UNCHANGED addon_vars

AddTexture(max) ==
    /\ Len(objects) < max
    /\ \E path \in ImagePaths :
          Returns(AddTexture_execute(Scene, path), "AddTexture", 0, 0, "", path)

\* the operators are invoked only while the scene stays within max objects
CreateFittingBox(max) ==
    /\ Len(objects) < max
    /\ \E in \in FitInputs :
          Returns(CreateFittingRectangle_execute(Scene, in.padding, in.side_spacing),
                  "CreateFittingBox", in.padding, in.side_spacing, "", "")

MouldBox(max) ==
    /\ Len(objects) + 1 < max
    /\ \E solved \in SolverResults :
          Returns(CreateMouldBox_execute(Scene, solved), "MouldBox", 0, 0, solved, "")

UserActs ==
    \/ \E n \in Names(objects) : Select(n)
    \/ ClearActive
    \/ ToggleEditMode

\* the two box operators on a scene
Next ==
    \/ UserActs
    \/ CreateFittingBox(MaxObjects)
    \/ MouldBox(MaxObjects)

Spec == Init /\ [][Next]_vars

\* all three operators, on a scene of at most MaxTexturedObjects objects
NextTexture ==
    \/ UserActs
    \/ AddTexture(MaxTexturedObjects)
    \/ CreateFittingBox(MaxTexturedObjects)
    \/ MouldBox(MaxTexturedObjects)

\* texturing does not read the geometry: one source mesh is enough
InitTexture ==
    InitWith({[bmin |-> Vec(-Unit, -Unit, -Unit), bmax |-> Vec(Unit, Unit, Unit)]},
             {[location |-> Zero, rot |-> 0, scale |-> Ones]})

SpecTexture == InitTexture /\ [][NextTexture]_vars

\* the module imported, nothing registered yet, the scene as loaded
InitRegister ==
    /\ objects = <<SourceMesh([bmin |-> Vec(-Unit, -Unit, -Unit), bmax |-> Vec(Unit, Unit, Unit)],
                              [location |-> Zero, rot |-> 0, scale |-> Ones]), Camera>>
    /\ active = None
    /\ mode = "OBJECT"
    /\ images = {}
    /\ materials = {}
    /\ shading = "SOLID"
    /\ last = NoCall
    /\ registered = {}
    /\ scene_property = FALSE
    /\ menu_funcs = 0
    /\ IS_REGISTERED = FALSE
    /\ calls = <<>>

\* the call has ended as out says
Called(out, op, host_fails) ==
    /\ Len(calls) < MaxCalls
    /\ registered' = out.addon.registered
    /\ scene_property' = out.addon.scene_property
    /\ menu_funcs' = out.addon.menu_funcs
    /\ IS_REGISTERED' = out.flag
    /\ calls' = Append(calls, [op |-> op, host_fails |-> host_fails, how |-> out.how])
    /\ UNCHANGED scene_vars

Register ==
    \E host_fails \in HostFailures :
        Called(register(Addon, IS_REGISTERED, host_fails), "register", host_fails)

Unregister == Called(unregister(Addon, IS_REGISTERED), "unregister", "none")

LoadAndRegister ==
    \E host_fails \in HostFailures :
        Called(load_and_register(Addon, IS_REGISTERED, host_fails),
               "load_and_register", host_fails)

\* the three module functions, called from the console in any order
NextRegister ==
    \/ Register
    \/ Unregister
    \/ LoadAndRegister

SpecRegister == InitRegister /\ [][NextRegister]_vars

(* ------------------------------- claims ------------------------------- *)

FitDone == last.op = "CreateFittingBox" /\ last.result = "FINISHED"

MouldMade == last.op = "MouldBox" /\ last.created # <<>>

Reported(lvl, l) == \E i \in 1..Len(l.reports) : l.reports[i] = lvl

Operators == {"AddTexture", "CreateFittingBox", "MouldBox"}

SceneUnchanged == UNCHANGED <<objects, active, mode, images, materials, shading>>

\* the mesh the last call was made on, and what that call created
LastSource == Obj(objects, last.source)

LastBox == Obj(objects, last.created[1])

LastCopy == Obj(objects, last.created[2])

LastFittingBox == Obj(objects, FittingBoxName(last.source))

ScenarioCube == [min |-> Vec(-Unit, -Unit, -Unit), max |-> Vec(Unit, Unit, Unit)]

\* C1: after a successful Create Fitting Box the new box measures, on each
\* of X, Y and Z, the source's world bounding-box size plus twice the
\* padding; for the box (-1,-1,-1)..(1,1,1) and padding 0.1 that is 2.2.
C1_FittingBoxSize ==
    FitDone =>
        LET B == WorldBBox(LastSource)
            size == BSize(WorldBBox(LastBox))
        IN /\ size = Vec(BSize(B).x + 2 * last.padding,
                         BSize(B).y + 2 * last.padding,
                         BSize(B).z + 2 * last.padding)
           /\ (B = ScenarioCube /\ last.padding = Unit \div 10)
                  => size = Vec((22 * Unit) \div 10, (22 * Unit) \div 10, (22 * Unit) \div 10)

C1_Witness ==
    FitDone /\ WorldBBox(LastSource) = ScenarioCube /\ last.padding = Unit \div 10

\* C2: the fitting box never overlaps the source along X, its low-X face
\* lies exactly the side spacing past the source's high-X face, and its
\* centre on Y and Z is the source's centre on Y and Z.
C2_FittingBoxPlacement ==
    FitDone =>
        LET B == WorldBBox(LastSource)
            box == WorldBBox(LastBox)
        IN /\ box.min.x = B.max.x + last.side_spacing
           /\ box.min.x >= B.max.x
           /\ BCenter(box).y = BCenter(B).y
           /\ BCenter(box).z = BCenter(B).z

C2_Witness == FitDone /\ last.side_spacing = Unit /\ LastSource.rot = 1

\* the Z the code gave the duplicate: baked with unit scale and no
\* rotation, the copy's geometry is the source's local geometry moved by it
DuplicateZ == (LastCopy.bmin.z + LastCopy.location.z) - LastSource.bmin.z

MeshLocalHalfHeight == Half(LastSource.bmax.z - LastSource.bmin.z)

\* C3: in every Mould Box invocation the duplicate truly overlaps the top
\* face of the mould box: boxTopZ < duplicateCenterZ + meshLocalHalfHeight
\* and duplicateCenterZ - meshLocalHalfHeight < boxTopZ.
C3_DuplicateOverlapsTop ==
    MouldMade =>
        /\ WorldBBox(LastBox).max.z < DuplicateZ + MeshLocalHalfHeight
        /\ DuplicateZ - MeshLocalHalfHeight < WorldBBox(LastBox).max.z

\* C4: when the solver answers without FINISHED, the mould box keeps the
\* size and location it had before the boolean was attempted (about the
\* source's centre) and the operation does not end as a success.
C4_BooleanFailureLeavesBox ==
    (MouldMade /\ last.solved = "CANCELLED") =>
        /\ last.result # "FINISHED"
        /\ LastBox.location = BCenter(WorldBBox(LastSource))
        /\ BSize(WorldBBox(LastBox)) = BSize(WorldBBox(LastFittingBox))

\* C5: a Mould Box call made while no '<source>_FittingBox' exists has a
\* false poll, reports an error, returns CANCELLED and leaves the scene as it
\* was; a call that created a mould box found the fitting box in place.
C5_MouldNeedsFittingBox ==
    [][(last' # last /\ last'.op = "MouldBox") =>
          /\ (active = None \/ ~Exists(objects, FittingBoxName(active))) =>
                /\ ~MouldBox_poll(Scene)
                /\ last'.result = "CANCELLED"
                /\ Reported("ERROR", last')
                /\ last'.created = <<>>
                /\ SceneUnchanged
          /\ last'.created # <<>> =>
                active # None /\ Exists(objects, FittingBoxName(active))]_vars

C5_Witness ==
    /\ last.op = "MouldBox" /\ last.result = "CANCELLED"
    /\ IsMesh(objects, last.source)
    /\ ~Exists(objects, FittingBoxName(last.source))
    /\ LastSource.select

\* C6: the mould box has on every axis the size of the fitting box named
\* after the source, whatever the mesh, and is created centred on the
\* source's world bounding-box centre (it leaves that centre only along X,
\* in the final repositioning).
C6_MouldBoxSize ==
    /\ MouldMade =>
          LET center == BCenter(WorldBBox(LastSource))
          IN /\ BSize(WorldBBox(LastBox)) = BSize(WorldBBox(LastFittingBox))
             /\ LastBox.location.y = center.y
             /\ LastBox.location.z = center.z
             /\ last.solved = "RAISE" => LastBox.location = center
    /\ MouldBox_poll(Scene) =>
          LET made == MouldBoxCreated(Scene)
              box == Obj(made.objects, made.active)
              center == BCenter(WorldBBox(Obj(objects, active)))
          IN /\ BSize(WorldBBox(box)) = BSize(WorldBBox(Obj(objects, FittingBoxName(active))))
             /\ BCenter(WorldBBox(box)) = center
             /\ box.location = center

C6_Witness ==
    /\ MouldMade /\ last.solved = "FINISHED" /\ LastSource.rot = 1
    /\ BSize(WorldBBox(LastBox)).x > 0

\* C7: after the boolean step box and cutter have moved along X by one and
\* the same offset, so the cutter sits about the box as it was placed, and
\* the box's low-X face is 1.0 past the fitting box's high-X face.
C7_Repositioned ==
    (last.op = "MouldBox" /\ last.result = "FINISHED") =>
        /\ LastCopy.location.x = LastBox.location.x - BCenter(WorldBBox(LastSource)).x
        /\ WorldBBox(LastCopy).min.x - LastBox.location.x = LastSource.bmin.x
        /\ WorldBBox(LastBox).min.x = WorldBBox(LastFittingBox).max.x + Unit

C7_Witness ==
    /\ last.op = "MouldBox" /\ last.result = "FINISHED" /\ last.solved = "FINISHED"
    /\ LastCopy.location.x # 0

\* C8: each of the three operators, called with no active object or with
\* an active object that is no mesh, reports an error, returns CANCELLED and
\* changes nothing: no object, material or image appears and no transform,
\* selection or mode changes.
C8_NoActiveMesh ==
    [][(last' # last /\ last'.op \in Operators /\ ~IsMesh(objects, active)) =>
          /\ last'.result = "CANCELLED"
          /\ Reported("ERROR", last')
          /\ last'.created = <<>>
          /\ SceneUnchanged]_vars

C8_Witness ==
    /\ last.op = "AddTexture" /\ last.result = "CANCELLED"
    /\ last.source = <<"Camera">> /\ active = <<"Camera">>
    /\ Obj(objects, <<"Camera">>).select

\* C9: the boolean Mould Box requests is a DIFFERENCE with the mould box as
\* target and the duplicate as cutter, and the duplicate, like every cutter
\* a box was or is to be cut with, is still in the scene.
C9_DifferenceKeepsCutter ==
    /\ MouldMade =>
          /\ last.boolean.operation = "DIFFERENCE"
          /\ last.boolean.target = last.created[1]
          /\ last.boolean.cutter = last.created[2]
          /\ NameStem(last.created[1]) = MouldBoxName(last.source)
          /\ NameStem(last.created[2]) = MouldMeshName(last.source)
          /\ Exists(objects, last.created[2])
          /\ last.solved = "FINISHED" => LastBox.cut = <<last.created[2]>>
          /\ last.solved # "FINISHED" =>
                LastBox.modifiers = <<[name |-> "BooleanCavity", operation |-> "DIFFERENCE",
                                       object |-> last.created[2], solver |-> "FAST"]>>
    /\ \A i \in 1..Len(objects) :
          /\ \A j \in 1..Len(objects[i].cut) : Exists(objects, objects[i].cut[j])
          /\ \A j \in 1..Len(objects[i].modifiers) :
                Exists(objects, objects[i].modifiers[j].object)

C9_Witness ==
    MouldMade /\ last.solved = "FINISHED" /\ LastBox.cut = <<last.created[2]>>

\* everything of an object but its selection
Geometry(o) == [o EXCEPT !.select = FALSE]

\* C10: a second Create Fitting Box on the same source with the same padding
\* and side spacing adds one new object, leaves the earlier box in place and
\* as it was, and gives the new box the earlier box's size and location.
C10_FittingBoxTwice ==
    [][(/\ last' # last
        /\ last.op = "CreateFittingBox" /\ last.result = "FINISHED"
        /\ last'.op = "CreateFittingBox" /\ last'.result = "FINISHED"
        /\ last'.source = last.source
        /\ last'.padding = last.padding
        /\ last'.side_spacing = last.side_spacing) =>
          /\ last'.created[1] # last.created[1]
          /\ last'.created[1] \notin Names(objects)
          /\ Len(objects') = Len(objects) + 1
          /\ \A i \in 1..Len(objects) : Geometry(objects'[i]) = Geometry(objects[i])
          /\ Obj(objects', last'.created[1]).scale = Obj(objects', last.created[1]).scale
          /\ Obj(objects', last'.created[1]).location = Obj(objects', last.created[1]).location
          /\ WorldBBox(Obj(objects', last'.created[1]))
                 = WorldBBox(Obj(objects', last.created[1]))]_vars

C10_Witness ==
    /\ FitDone
    /\ last.source = <<"object1">>
    /\ last.created = << <<"object1", "_FittingBox", ".001">> >>
    /\ Obj(objects, <<"object1", "_FittingBox">>).scale = LastBox.scale
    /\ Obj(objects, <<"object1", "_FittingBox">>).location = LastBox.location

\* C11: Create Fitting Box on a mesh whose world bounding box is a single
\* point (min = max) finishes without an error report and makes a box of
\* size 2 * padding on every axis, (0,0,0) when the padding is 0.
C11_DegenerateSource ==
    [][(/\ last' # last
        /\ last'.op = "CreateFittingBox"
        /\ IsMesh(objects, active)
        /\ WorldBBox(Obj(objects, active)).min = WorldBBox(Obj(objects, active)).max) =>
          /\ last'.result = "FINISHED"
          /\ ~Reported("ERROR", last')
          /\ Len(last'.created) = 1
          /\ BSize(WorldBBox(Obj(objects', last'.created[1])))
                 = Vec(2 * last'.padding, 2 * last'.padding, 2 * last'.padding)
          /\ last'.padding = 0 =>
                BSize(WorldBBox(Obj(objects', last'.created[1]))) = Zero]_vars

C11_Witness ==
    /\ FitDone /\ last.padding = 0 /\ last.source = <<"object1">>
    /\ WorldBBox(LastSource).min = WorldBBox(LastSource).max
    /\ BSize(WorldBBox(LastBox)) = Zero

\* b is, axis by axis, the least and the greatest coordinate among the
\* world positions of o's eight corners
BoundsCorners(o, b) ==
    LET pts == {ToWorld(o, c) : c \in Corners(o)}
    IN \A a \in {"x", "y", "z"} :
          /\ b.min[a] <= b.max[a]
          /\ \A p \in pts : b.min[a] <= p[a] /\ p[a] <= b.max[a]
          /\ \E p \in pts : p[a] = b.min[a]
          /\ \E p \in pts : p[a] = b.max[a]

\* C12: the world bounding box the two generators compute for the mesh
\* they are run on is, on each axis, the minimum and the maximum over its
\* eight transformed corners: min <= max, every corner inside; so no box
\* comes out smaller than twice the padding.
C12_WorldBBoxOverCorners ==
    /\ \A n \in {active, last.source} :
          IsMesh(objects, n) => BoundsCorners(Obj(objects, n), WorldBBox(Obj(objects, n)))
    /\ FitDone => /\ LastBox.scale.x >= 2 * last.padding
                  /\ LastBox.scale.y >= 2 * last.padding
                  /\ LastBox.scale.z >= 2 * last.padding

C12_Witness ==
    /\ MouldMade /\ LastSource.rot = 1 /\ LastSource.scale.z < 0
    /\ WorldBBox(LastSource).min.z < WorldBBox(LastSource).max.z
    /\ WorldBBox(LastSource).min.x < WorldBBox(LastSource).max.x

\* C13: Add Texture on an active mesh with an empty or blank image path,
\* or with a path naming no file, reports an error and returns CANCELLED
\* with nothing changed: no image, no material, no slot, no mode switch.
C13_BadPathChangesNothing ==
    [][(/\ last' # last
        /\ last'.op = "AddTexture"
        /\ IsMesh(objects, active)
        /\ \/ Strip(last'.image_path) = ""
           \/ AbsPath(last'.image_path) \notin Files) =>
          /\ last'.result = "CANCELLED"
          /\ Reported("ERROR", last')
          /\ SceneUnchanged]_vars

C13_Witness ==
    /\ last.op = "AddTexture" /\ last.result = "CANCELLED"
    /\ last.image_path = "/home/u/none.png"
    /\ IsMesh(objects, last.source) /\ active = last.source
    /\ mode = "EDIT" /\ images = {} /\ materials = {}

\* where an object is and what it measures
Placement(o) == [location |-> o.location, rot |-> o.rot, scale |-> o.scale,
                 bmin |-> o.bmin, bmax |-> o.bmax, bbox |-> WorldBBox(o)]

\* C14: a call of Create Fitting Box or Mould Box, finished or cancelled,
\* leaves the mesh it is run on with the location, rotation, scale and
\* bounding box it had, and Mould Box leaves the fitting box with the scale,
\* location and size it had.
C14_SourceUntouched ==
    [][(last' # last /\ last'.op \in {"CreateFittingBox", "MouldBox"}) =>
          /\ IsMesh(objects, active) =>
                /\ Exists(objects', active)
                /\ Placement(Obj(objects', active)) = Placement(Obj(objects, active))
          /\ (/\ last'.op = "MouldBox"
              /\ active # None
              /\ Exists(objects, FittingBoxName(active))) =>
                /\ Exists(objects', FittingBoxName(active))
                /\ Placement(Obj(objects', FittingBoxName(active)))
                       = Placement(Obj(objects, FittingBoxName(active)))]_vars

C14_Witness ==
    /\ MouldMade /\ last.solved = "FINISHED"
    /\ LastSource.rot = 1
    /\ LastSource.location = Vec(2 * Unit, -Unit, 3 * Unit)
    /\ LastSource.scale = Vec(2 * Unit, Unit, -Unit)
    /\ LastSource.bmin = Vec(-Unit, -Unit, -Unit)
    /\ LastFittingBox.scale = BSize(WorldBBox(LastBox))

SceneAfter == [objects |-> objects', active |-> active', mode |-> mode',
               images |-> images', materials |-> materials', shading |-> shading']

\* C16: a successful Create Fitting Box on S leaves the new box active, not
\* S.  While the box stays active Mould Box's poll is false and its call is
\* cancelled, and a further Create Fitting Box fits the box itself.  Once S
\* is active again, its fitting box in the scene, the poll is true.
C16_ActiveAfterFit ==
    [][/\ (last' # last /\ last'.op = "CreateFittingBox" /\ last'.result = "FINISHED") =>
             /\ active' = last'.created[1]
             /\ active' # active
             /\ active' \notin Names(objects)
             /\ ~MouldBox_poll(SceneAfter)
       /\ (FitDone /\ active = last.created[1]) =>
             /\ ~MouldBox_poll(Scene)
             /\ ~Exists(objects, FittingBoxName(active))
             /\ (last' # last /\ last'.op = "MouldBox") =>
                   last'.result = "CANCELLED" /\ last'.created = <<>>
             /\ (last' # last /\ last'.op = "CreateFittingBox") =>
                   /\ last'.source = last.created[1]
                   /\ last'.source # last.source
                   /\ NameStem(last'.created[1]) = FittingBoxName(last.created[1])
                   /\ Obj(objects', last'.created[1]).scale
                          = FittingBoxSize(WorldBBox(LastBox), last'.padding)
       /\ (FitDone /\ last' = last /\ active' = last.source) =>
             /\ Exists(objects', FittingBoxName(active'))
             /\ MouldBox_poll(SceneAfter)]_vars

C16_Witness ==
    /\ FitDone
    /\ last.source = <<"object1", "_FittingBox">>
    /\ last.created = << <<"object1", "_FittingBox", "_FittingBox">> >>
    /\ active = <<"object1">>
    /\ MouldBox_poll(Scene)

\* C15: however register(), unregister() and load_and_register() are
\* interleaved, the flag _IS_REGISTERED is set only while the operator and
\* panel classes are registered, so load_and_register() never skips
\* registration while they are not.
C15_FlagMeansRegistered ==
    /\ IS_REGISTERED => ToolClasses \subseteq registered
    /\ (calls # <<>> /\ calls[Len(calls)].how = "skipped") => ToolClasses \subseteq registered

====
